---- MODULE Spec2Model ----
(***************************************************************************)
(* nexus3_exporter.py: one run of the exporter.  main checks the output    *)
(* directory, fetch_asset_listing walks the paginated listing endpoint,    *)
(* download_assets walks the listing and download_single_asset downloads   *)
(* and verifies one asset in at most ten tries.                            *)
(*                                                                         *)
(* The Nexus server and the local disk are the environment: every HTTP     *)
(* response is chosen nondeterministically from a bounded set when the     *)
(* request is issued.  Every loop iteration of the program is one action.  *)
(***************************************************************************)
EXTENDS Integers, Sequences, FiniteSets, TLC

\* ---------------------------------------------------------------- bounds
\* Most listing requests the server answers in one run.
MaxPages == 3
\* Most asset descriptors the server hands out in one run.
MaxAssets == 2
\* Most items in one listing page.
MaxPageItems == 2

\* ------------------------------------------------------------- constants
\* range(1, 11): the first value of tryy.
FirstTry == 1
\* range(1, 11): the exclusive end of the range of tryy.
RangeEndPlusOne == 11 + 1
RangeEnd == 11
\* The codes main and the loops hand to abort.
ExitOutputDirExists == 1
ExitListingIOError == 2
ExitListingNotJson == 3
ExitAssetFailed == 4
\* The interpreter's exit status after an uncaught exception.
ExitUncaught == 1
\* The interpreter's exit status when main returns.
ExitSuccess == 0

\* ------------------------------------------------------------ JSON values
\* The values resp["continuationToken"] can hold: null, a string, a number.
Null == [t |-> "null", s |-> "", n |-> 0]
Str(x) == [t |-> "str", s |-> x, n |-> 0]
Num(k) == [t |-> "num", s |-> "", n |-> k]

\* continuation_token = -1, the value hinting the first iteration.
FirstIteration == Num(-1)

\* The tokens the server may put in a listing response.
Tokens == {Null, Str(""), Str("t1"), Str("t2"), Num(-1)}

\* A truth value that takes every string, the empty one too, as true.
TruthyEmptyString(tok) ==
    CASE tok.t = "null" -> FALSE
      [] tok.t = "str" -> TRUE
      [] tok.t = "num" -> tok.n # 0

\* Python truth value of a token: while continuation_token.
Truthy(tok) ==
    CASE tok.t = "null" -> FALSE
      [] tok.t = "str" -> tok.s # ""
      [] tok.t = "num" -> tok.n # 0

\* str() of a token, as the f-string of query_url formats it.
Format(tok) ==
    CASE tok.t = "null" -> "None"
      [] tok.t = "str" -> tok.s
      [] tok.t = "num" -> IF tok.n = -1 THEN "-1" ELSE "0"

\* asset_api_url, the listing URL without a token.
asset_api_url == "service/rest/v1/assets?repository=repo"

\* query_url of one iteration of the listing loop.
QueryUrl(tok) ==
    IF tok = FirstIteration
    THEN asset_api_url
    ELSE asset_api_url \o "&continuationToken=" \o Format(tok)

\* ---------------------------------------------------------- file contents
\* Response bodies and file contents are byte sequences.
Bodies == {<<0>>, <<1>>, <<0, 1>>}
\* Contents of the files found in the output directory when the run starts.
InitBodies == {<<1>>, <<0, 1>>}

\* Lower-case hexadecimal digits, as hexdigest() produces them.
HexDigits == <<"0", "1", "2", "3", "4", "5", "6", "7",
               "8", "9", "a", "b", "c", "d", "e", "f">>

RECURSIVE Digest(_, _)
\* A two-digit stand-in for hashlib.sha1: a rolling hash of the bytes.
Digest(bytes, h) ==
    IF bytes = <<>> THEN h
    ELSE Digest(Tail(bytes), (h * 31 + Head(bytes) + 7) % 256)

\* hashlib.sha1(content).hexdigest(): a sequence of lower-case hex digits.
HexDigest(bytes) ==
    LET h == Digest(bytes, 10)
    IN  <<HexDigits[(h \div 16) + 1], HexDigits[(h % 16) + 1]>>

\* str.upper() of one hex digit.
UpperDigit(c) ==
    CASE c = "a" -> "A" [] c = "b" -> "B" [] c = "c" -> "C"
      [] c = "d" -> "D" [] c = "e" -> "E" [] c = "f" -> "F"
      [] OTHER -> c

\* str.upper() of a digest.
Upper(d) == [i \in DOMAIN d |-> UpperDigit(d[i])]

\* str.lower() of one hex digit.
LowerDigit(c) ==
    CASE c = "A" -> "a" [] c = "B" -> "b" [] c = "C" -> "c"
      [] c = "D" -> "d" [] c = "E" -> "e" [] c = "F" -> "f"
      [] OTHER -> c

\* str.lower() of a digest.
Lower(d) == [i \in DOMAIN d |-> LowerDigit(d[i])]

\* ------------------------------------------------------ asset descriptors
\* asset["path"] values the server reports.
Paths == {"/a", "b"}
\* asset["fileSize"] values the server reports.
FileSizes == {1}
\* asset["checksum"]["sha1"] values the server reports: the digest of the
\* body <<0>>, in lower case and in upper case.
Checksums == {HexDigest(<<0>>), Upper(HexDigest(<<0>>))}

Descriptors == [path : Paths, fileSize : FileSizes, sha1 : Checksums]

\* asset["path"].lstrip("/")
Lstrip(path) ==
    CASE path = "/a" -> "a"
      [] path = "b" -> "b"

\* Paths below output_dir: os.path.join(output_dir, relative_path).
LocalPaths == {Lstrip(p) : p \in Paths}

FilePath(asset) == Lstrip(asset.path)

\* A skip of every asset whose file is there with the size declared,
\* mirror or not.
SkipAssetAnyMode(m, fs, asset) ==
    /\ FilePath(asset) \in DOMAIN fs
    /\ Len(fs[FilePath(asset)]) = asset.fileSize

\* os.path.isfile(file_path) and os.stat(file_path).st_size == fileSize,
\* guarded by mirror: the asset is skipped.
SkipAssetIfVerified(m, fs, asset) ==
    /\ m
    /\ FilePath(asset) \in DOMAIN fs
    /\ Len(fs[FilePath(asset)]) = asset.fileSize
    /\ HexDigest(fs[FilePath(asset)]) = asset.sha1
SkipAsset(m, fs, asset) ==
    /\ m
    /\ FilePath(asset) \in DOMAIN fs
    /\ Len(fs[FilePath(asset)]) = asset.fileSize

\* open(file_path, "wb"); f.write(r.content): the file holds the body.
WriteFileAppend(fs, p, body) ==
    IF p \in DOMAIN fs
    THEN [q \in DOMAIN fs |-> IF q = p THEN fs[q] \o body ELSE fs[q]]
    ELSE [q \in DOMAIN fs \cup {p} |-> IF q = p THEN body ELSE fs[q]]
WriteFile(fs, p, body) ==
    [q \in DOMAIN fs \cup {p} |-> IF q = p THEN body ELSE fs[q]]

\* sha1(file_path)
sha1(fs, p) == HexDigest(fs[p])

\* A comparison that folds the case of the declared digest, and one that
\* accepts every file.
ChecksumMatchesIgnoreCase(asset, fs, p) == Lower(asset.sha1) = sha1(fs, p)
ChecksumMatchesAlways(asset, fs, p) == TRUE

\* asset["checksum"]["sha1"] == sha1(file_path)
ChecksumMatches(asset, fs, p) == asset.sha1 = sha1(fs, p)

\* os.path.exists(output_dir) and not mirror
OutputDirConflictAnyMode(exists, m) == exists
OutputDirConflict(exists, m) == exists /\ ~m

\* asset_listing += resp["items"]
AppendItemsFront(listing, items) == items \o listing
AppendItems(listing, items) == listing \o items

\* What one iteration of the loop over tryy decides, given whether the
\* try block raised IOError (io), no_verify (nv), whether the hashes are
\* equal (match) and the value of tryy (t).
TryControlRetryIO(io, nv, match, t) ==
    IF (~io /\ nv) THEN "notverified"
    ELSE IF (~io /\ match) THEN "verified"
    ELSE IF t + 1 < RangeEnd THEN "retry"
    ELSE "exhausted"
TryControlVerifyAlways(io, nv, match, t) ==
    IF io THEN "ioerror"
    ELSE IF match THEN "verified"
    ELSE IF t + 1 < RangeEnd THEN "retry"
    ELSE "exhausted"
TryControlIgnoreMatch(io, nv, match, t) ==
    IF io THEN "ioerror"
    ELSE IF nv THEN "notverified"
    ELSE IF match /\ t + 1 >= RangeEnd THEN "verified"
    ELSE IF t + 1 < RangeEnd THEN "retry"
    ELSE "exhausted"
TryControl(io, nv, match, t) ==
    IF io THEN "ioerror"
    ELSE IF nv THEN "notverified"
    ELSE IF match THEN "verified"
    ELSE IF t + 1 < RangeEnd THEN "retry"
    ELSE "exhausted"

\* The values download_single_asset returns.
NoError == "False"
IOErrorResult == "IO error"
RepeatedFailure == "Repeated SHA-1 verification failure"

\* if error: ... abort(4), in download_assets.
AbortsOnErrorNever(err) == FALSE
AbortsOnError(err) == err # NoError

\* ------------------------------------------------------------ responses
\* What requests.get(query_url).json() can yield: an IOError, a body that
\* is not JSON, a JSON value that is not an object, or an object with or
\* without the keys continuationToken and items.
ListingResponse(kind, hasToken, token, hasItems, items) ==
    [kind |-> kind, hasToken |-> hasToken, token |-> token,
     hasItems |-> hasItems, items |-> items]

Min(a, b) == IF a < b THEN a ELSE b

\* Sequences of descriptors of length at most n.
ItemSeqs(n) ==
    UNION {[1..k -> Descriptors] : k \in 0..Min(n, MaxPageItems)}

\* The items and tokens of the responses that lack the other key.
MissingKeyItems == {<<>>, <<CHOOSE d \in Descriptors : TRUE>>}
MissingKeyTokens == {Null, Str("t1")}

ListingResponses(room) ==
    {ListingResponse(k, FALSE, Null, FALSE, <<>>) :
        k \in {"ioerror", "notjson", "nonobject"}}
    \cup {ListingResponse("object", TRUE, t, TRUE, its) :
            t \in Tokens, its \in ItemSeqs(room)}
    \cup {ListingResponse("object", FALSE, Null, TRUE, its) :
            its \in {i \in MissingKeyItems : Len(i) <= room}}
    \cup {ListingResponse("object", TRUE, t, FALSE, <<>>) :
            t \in MissingKeyTokens}
    \cup {ListingResponse("object", FALSE, Null, FALSE, <<>>)}

\* The except clause that catches the exception .json() raises on a body
\* that is not JSON.  It depends on the installed requests: its
\* JSONDecodeError is an IOError as well from 2.27 on, json's
\* JSONDecodeError before, and simplejson's (caught by neither clause) when
\* an older requests finds simplejson installed.
JsonErrorClasses == {"ioerror", "jsondecodeerror", "uncaught"}

\* What requests.get(asset["downloadUrl"]) and the write can yield: an
\* IOError from the GET, an IOError from open or write, or a written body.
GetResponse(get, body, write) == [get |-> get, body |-> body, write |-> write]
GetResponses ==
    {GetResponse("ioerror", <<>>, "none")}
    \cup {GetResponse("ok", b, w) : b \in Bodies, w \in {"ok", "ioerror"}}

\* A printed line: its kind and the try number it names (0 when none).
Msg(kind, t) == [kind |-> kind, try |-> t]

\* ------------------------------------------------------------------ state
VARIABLES
    mirror,              \* args.mirror
    no_verify,           \* args.no_verify
    quiet,               \* args.quiet
    dirExists,           \* os.path.exists(output_dir)
    files,               \* the regular files below output_dir: path -> bytes
    pc,                  \* where the run is
    exitCode,            \* the process exit status, -1 while running
    continuation_token,  \* local of fetch_asset_listing
    query_url,           \* local of fetch_asset_listing
    asset_listing,       \* the listing fetched so far, then the one returned
    idx,                 \* position in asset_listing of the asset in hand
    tryy,                \* local of download_single_asset, 0 outside it
    error,               \* what download_single_asset returned last
    lastMsg,             \* the last line printed before "Aborting script!"
    served,              \* history: items the server sent, in sending order
    nListReqs,           \* history: listing requests issued
    gets,                \* history: GETs issued for the asset in hand
    mism,                \* history: bodies written for it whose hash differs
    hit,                 \* history: bodies written for it whose hash is equal
    ioFailure,           \* history: where the last try raised IOError
    lastGetIdx,          \* history: position of the asset last requested
    attemptsUsed,        \* history: tryy when download_single_asset returned
    written,             \* history: path -> body last written by this run
    writtenBy,           \* history: path -> position of the asset it was for
    files0,              \* history: files when the run started
    dirExists0,          \* history: dirExists when the run started
    last                 \* history: the step taken last

config == <<mirror, no_verify, quiet>>
disk == <<dirExists, files>>
fetchLocals == <<continuation_token, query_url>>
fetchHist == <<served, nListReqs>>
dlHist == <<gets, mism, hit, ioFailure, lastGetIdx, attemptsUsed, written,
            writtenBy>>
vars == <<config, disk, pc, exitCode, fetchLocals, asset_listing, idx, tryy,
          error, lastMsg, fetchHist, dlHist, files0, dirExists0, last>>

\* Partial functions from local paths to initial contents.
InitFiles ==
    UNION {[D -> InitBodies] : D \in SUBSET LocalPaths}

NoFiles == [q \in {} |-> <<>>]

Init ==
    /\ mirror \in BOOLEAN
    /\ no_verify \in BOOLEAN
    /\ quiet \in BOOLEAN
    /\ dirExists \in BOOLEAN
    /\ files \in (IF dirExists THEN InitFiles ELSE {NoFiles})
    /\ files0 = files
    /\ dirExists0 = dirExists
    /\ pc = "init"
    /\ exitCode = -1
    /\ continuation_token = Null
    /\ query_url = ""
    /\ asset_listing = <<>>
    /\ idx = 0
    /\ tryy = 0
    /\ error = NoError
    /\ lastMsg = Msg("none", 0)
    /\ served = <<>>
    /\ nListReqs = 0
    /\ gets = 0
    /\ mism = 0
    /\ hit = 0
    /\ ioFailure = "none"
    /\ lastGetIdx = 0
    /\ attemptsUsed = 0
    /\ written = NoFiles
    /\ writtenBy = [q \in {} |-> 0]
    /\ last = "init"

\* An abort that prints and returns to its caller.
abortReturns(code) == UNCHANGED <<pc, exitCode>>

\* abort(code): print "Aborting script!" and exit(code).
abort(code) == pc' = "aborted" /\ exitCode' = code

\* An exception no except clause catches: traceback, exit status 1.
uncaught == pc' = "crashed" /\ exitCode' = ExitUncaught

\* print(...) guarded by "if not quiet".
PrintUnlessQuiet(m) == lastMsg' = IF quiet THEN lastMsg ELSE m

\* ------------------------------------------------------------------- main
\* main, lines 49-60: the output directory check, up to the call of
\* fetch_asset_listing and its first two assignments.
main_start ==
    /\ pc = "init"
    /\ IF OutputDirConflict(dirExists, mirror)
       THEN /\ PrintUnlessQuiet(Msg("output directory exists", 0))
            /\ abort(ExitOutputDirExists)
            /\ last' = "output_dir_exists"
            /\ UNCHANGED continuation_token
       ELSE /\ PrintUnlessQuiet(Msg("Fetching asset listing...", 0))
            /\ pc' = "fetching"
            /\ continuation_token' = FirstIteration
            /\ last' = "start"
            /\ UNCHANGED exitCode
    /\ UNCHANGED <<config, disk, query_url, asset_listing, idx, tryy,
                   error, fetchHist, dlHist, files0, dirExists0>>

\* ---------------------------------------------------- fetch_asset_listing
\* One iteration of the while loop, lines 81-102, for the response r and,
\* when r is not JSON, the class c of the exception .json() raises.
fetch_page(r, c) ==
    /\ pc = "fetching"
    /\ Truthy(continuation_token)
    /\ nListReqs < MaxPages
    /\ query_url' = QueryUrl(continuation_token)
    /\ nListReqs' = nListReqs + 1
    /\ UNCHANGED <<config, disk, idx, tryy, error, dlHist, files0, dirExists0>>
    /\ CASE r.kind = "ioerror" \/ (r.kind = "notjson" /\ c = "ioerror") ->
              /\ lastMsg' = Msg("IO error", 0)
              /\ abort(ExitListingIOError)
              /\ last' = IF r.kind = "ioerror" THEN "listing_ioerror"
                          ELSE "listing_notjson_ioerror"
              /\ UNCHANGED <<continuation_token, asset_listing, served>>
         [] r.kind = "notjson" /\ c = "jsondecodeerror" ->
              /\ lastMsg' = Msg("Cannot decode JSON response", 0)
              /\ abort(ExitListingNotJson)
              /\ last' = "listing_notjson"
              /\ UNCHANGED <<continuation_token, asset_listing, served>>
         [] r.kind = "notjson" /\ c = "uncaught" ->
              /\ lastMsg' = Msg("Traceback", 0)
              /\ uncaught
              /\ last' = "listing_uncaught"
              /\ UNCHANGED <<continuation_token, asset_listing, served>>
         [] r.kind = "nonobject" ->
              \* resp["continuationToken"] raises TypeError
              /\ lastMsg' = Msg("Traceback", 0)
              /\ uncaught
              /\ last' = "listing_nonobject"
              /\ UNCHANGED <<continuation_token, asset_listing, served>>
         [] r.kind = "object" /\ ~r.hasToken ->
              \* resp["continuationToken"] raises KeyError
              /\ lastMsg' = Msg("Traceback", 0)
              /\ uncaught
              /\ last' = "listing_no_token"
              /\ served' = served \o r.items
              /\ UNCHANGED <<continuation_token, asset_listing>>
         [] r.kind = "object" /\ r.hasToken /\ ~r.hasItems ->
              \* resp["items"] raises KeyError
              /\ continuation_token' = r.token
              /\ lastMsg' = Msg("Traceback", 0)
              /\ uncaught
              /\ last' = "listing_no_items"
              /\ UNCHANGED <<asset_listing, served>>
         [] r.kind = "object" /\ r.hasToken /\ r.hasItems ->
              /\ continuation_token' = r.token
              /\ asset_listing' = AppendItems(asset_listing, r.items)
              /\ served' = served \o r.items
              /\ last' = "page"
              /\ UNCHANGED <<pc, exitCode, lastMsg>>

fetch_asset_listing ==
    \E r \in ListingResponses(MaxAssets - Len(asset_listing)) :
        \E c \in JsonErrorClasses :
            /\ (r.kind # "notjson" => c = "ioerror")
            /\ fetch_page(r, c)

\* A listing that is handed on after any page, whatever its token.
fetch_return_streaming ==
    /\ pc = "fetching"
    /\ last = "page"
    /\ pc' = "downloading"
    /\ PrintUnlessQuiet(Msg("Downloading and verifying assets...", 0))
    /\ UNCHANGED continuation_token
    /\ query_url' = ""
    /\ idx' = 1
    /\ tryy' = 0
    /\ last' = "fetch_return"
    /\ UNCHANGED <<config, disk, exitCode, asset_listing, error, fetchHist,
                   dlHist, files0, dirExists0>>

\* The while condition fails: return asset_listing (line 104), and main,
\* lines 62-65, calls download_assets.
fetch_return ==
    /\ pc = "fetching"
    /\ ~Truthy(continuation_token)
    /\ pc' = "downloading"
    /\ PrintUnlessQuiet(Msg("Downloading and verifying assets...", 0))
    /\ continuation_token' = Null
    /\ query_url' = ""
    /\ idx' = 1
    /\ tryy' = 0
    /\ last' = "fetch_return"
    /\ UNCHANGED <<config, disk, exitCode, asset_listing, error, fetchHist,
                   dlHist, files0, dirExists0>>

\* -------------------------------------------------------- download_assets
\* The asset the loop of download_assets has in hand.
Asset == asset_listing[idx]

\* The head of one iteration of the for loop, lines 109-114: skip the
\* asset, or call download_single_asset, which creates the parent
\* directories (line 124) and starts its loop.
download_next ==
    /\ pc = "downloading"
    /\ tryy = 0
    /\ idx <= Len(asset_listing)
    /\ gets' = 0
    /\ mism' = 0
    /\ hit' = 0
    /\ ioFailure' = "none"
    /\ attemptsUsed' = 0
    /\ IF SkipAsset(mirror, files, Asset)
       THEN /\ idx' = idx + 1
            /\ last' = "skip"
            /\ UNCHANGED <<tryy, dirExists>>
       ELSE /\ tryy' = FirstTry
            /\ dirExists' = TRUE
            /\ last' = "enter"
            /\ UNCHANGED idx
    /\ UNCHANGED <<config, files, pc, exitCode, fetchLocals, asset_listing,
                   error, lastMsg, fetchHist, lastGetIdx, written, writtenBy,
                   files0, dirExists0>>

\* download_single_asset returned err to download_assets, lines 116-120.
Returned(err) ==
    /\ error' = err
    /\ attemptsUsed' = tryy
    /\ tryy' = 0
    /\ IF AbortsOnError(err)
       THEN /\ abort(ExitAssetFailed)
            /\ UNCHANGED idx
       ELSE /\ idx' = idx + 1
            /\ UNCHANGED <<pc, exitCode>>

\* One iteration of the loop of download_single_asset, lines 126-142, for
\* the outcome g of the GET and of the write; the return after the loop
\* (line 145) and what download_assets does with the value returned.
download_try(g) ==
    LET p == FilePath(Asset)
        io == g.get = "ioerror" \/ g.write = "ioerror"
        files1 == IF io THEN files ELSE WriteFile(files, p, g.body)
        match == IF io THEN FALSE ELSE ChecksumMatches(Asset, files1, p)
        ctl == TryControl(io, no_verify, match, tryy)
    IN  /\ pc = "downloading"
        /\ tryy >= FirstTry
        /\ gets' = gets + 1
        /\ lastGetIdx' = idx
        /\ files' = files1
        /\ written' = IF io THEN written
                      ELSE [q \in DOMAIN written \cup {p} |->
                                IF q = p THEN g.body ELSE written[q]]
        /\ writtenBy' = IF io THEN writtenBy
                        ELSE [q \in DOMAIN writtenBy \cup {p} |->
                                  IF q = p THEN idx ELSE writtenBy[q]]
        /\ mism' = IF ~io /\ Asset.sha1 # HexDigest(g.body)
                   THEN mism + 1 ELSE mism
        /\ hit' = IF ~io /\ Asset.sha1 = HexDigest(g.body)
                  THEN hit + 1 ELSE hit
        /\ ioFailure' = IF g.get = "ioerror" THEN "get"
                        ELSE IF g.write = "ioerror" THEN "write" ELSE "none"
        /\ UNCHANGED <<config, dirExists, fetchLocals, asset_listing,
                       fetchHist, files0, dirExists0>>
        /\ CASE ctl = "ioerror" ->
                  /\ Returned(IOErrorResult)
                  /\ lastMsg' = IF AbortsOnError(IOErrorResult)
                                THEN Msg(IOErrorResult, 0) ELSE lastMsg
                  /\ last' = "try_ioerror"
             [] ctl = "notverified" ->
                  /\ PrintUnlessQuiet(Msg("Downloaded (not verified!)", 0))
                  /\ Returned(NoError)
                  /\ last' = "try_notverified"
             [] ctl = "verified" ->
                  /\ PrintUnlessQuiet(Msg("Downloaded and verified", tryy))
                  /\ Returned(NoError)
                  /\ last' = "try_verified"
             [] ctl = "retry" ->
                  /\ lastMsg' = Msg("SHA-1 verification failed", tryy)
                  /\ tryy' = tryy + 1
                  /\ last' = "try_retry"
                  /\ UNCHANGED <<pc, exitCode, idx, error, attemptsUsed>>
             [] ctl = "exhausted" ->
                  /\ Returned(RepeatedFailure)
                  /\ lastMsg' = IF AbortsOnError(RepeatedFailure)
                                THEN Msg(RepeatedFailure, 0)
                                ELSE Msg("SHA-1 verification failed", tryy)
                  /\ last' = "try_exhausted"

download_single_asset == \E g \in GetResponses : download_try(g)

\* The for loop of download_assets is exhausted: main prints "Done!" and
\* returns (line 66).
main_done ==
    /\ pc = "downloading"
    /\ tryy = 0
    /\ idx > Len(asset_listing)
    /\ pc' = "done"
    /\ exitCode' = ExitSuccess
    /\ PrintUnlessQuiet(Msg("Done!", 0))
    /\ last' = "done"
    /\ UNCHANGED <<config, disk, fetchLocals, asset_listing, idx, tryy,
                   error, fetchHist, dlHist, files0, dirExists0>>

Next ==
    \/ main_start
    \/ fetch_asset_listing
    \/ fetch_return
    \/ download_next
    \/ download_single_asset
    \/ main_done

Spec == Init /\ [][Next]_vars

\* The interpreter runs one thread and always takes its next step; what
\* the server and the disk answer stays free.
FairSpec == Spec /\ WF_vars(Next)

\* ----------------------------------------------------------------- claims
\* The descriptor at position i of the listing, and its local path.
AssetAt(i) == asset_listing[i]
PathAt(i) == FilePath(asset_listing[i])

\* C1: with verification on, ten tries whose written bodies all hash to
\* something else than the declared checksum end download_single_asset
\* with "Repeated SHA-1 verification failure" after exactly ten GETs of
\* the asset; that error is returned in no other case, and no asset is
\* ever requested an eleventh time.
C1_RepeatedFailureAfterTenGets ==
    /\ gets <= 10
    /\ (~no_verify /\ mism = 10) =>
           /\ error = RepeatedFailure
           /\ gets = 10
           /\ attemptsUsed = 10
           /\ tryy = 0
    /\ error = RepeatedFailure =>
           /\ ~no_verify
           /\ gets = 10
           /\ mism = 10
           /\ hit = 0

C1_Witness ==
    /\ ~no_verify
    /\ error = RepeatedFailure
    /\ gets = 10
    /\ mism = 10

\* What C2 says of the state in which a body whose hash equals the
\* declared checksum has been written: it is the only one, the k - 1 tries
\* before it wrote bodies that differ, k GETs were issued, the function
\* returned success at tryy = k and the loop moved on to the next asset.
C2_ReturnedAtFirstMatch ==
    /\ hit = 1
    /\ tryy = 0
    /\ error = NoError
    /\ attemptsUsed = gets
    /\ mism = gets - 1
    /\ lastGetIdx = idx - 1
    /\ last \in {"try_verified", "done"}

\* C2 as stated: with verification on, a try that writes a body whose
\* hash equals the checksum after k - 1 tries that did not returns success
\* after exactly k GETs and reports the attempt number k.
C2_Original ==
    (~no_verify /\ hit >= 1) =>
        /\ C2_ReturnedAtFirstMatch
        /\ last = "try_verified" =>
               lastMsg = Msg("Downloaded and verified", attemptsUsed)

\* C2, amended: as C2, with the hash equal to the checksum as strings, and
\* the attempt number reported (in the line "Downloaded and verified ...
\* (try k)") only when quiet is off.
C2_SuccessAtFirstMatch ==
    (~no_verify /\ hit >= 1) =>
        /\ C2_ReturnedAtFirstMatch
        /\ (last = "try_verified" /\ ~quiet) =>
               lastMsg = Msg("Downloaded and verified", attemptsUsed)

C2_Witness ==
    /\ ~no_verify
    /\ ~quiet
    /\ last = "try_verified"
    /\ hit = 1
    /\ mism = 9
    /\ gets = 10
    /\ attemptsUsed = 10
    /\ lastMsg = Msg("Downloaded and verified", 10)

\* C3: in mirror mode, when the loop of download_assets comes to an asset
\* whose local path holds a file of the declared size, it moves on to the
\* next asset without a GET and without touching the file, whatever the
\* file's hash; positions only advance and a GET is always for the asset
\* in hand, so no later step requests the skipped asset either.
C3_MirrorSkipsOnSizeAlone ==
    [][ /\ ( /\ pc = "downloading"
             /\ tryy = 0
             /\ idx <= Len(asset_listing)
             /\ mirror
             /\ PathAt(idx) \in DOMAIN files
             /\ Len(files[PathAt(idx)]) = AssetAt(idx).fileSize )
          => ( /\ idx' = idx + 1
               /\ tryy' = 0
               /\ files' = files
               /\ gets' = 0
               /\ lastGetIdx' = lastGetIdx
               /\ lastGetIdx' < idx
               /\ pc' = "downloading" )
        /\ idx' >= idx
        /\ gets' > gets => lastGetIdx' = idx
      ]_vars

\* A skipped asset whose file does not hash to the declared checksum.
C3_Witness ==
    /\ last = "skip"
    /\ idx >= 2
    /\ PathAt(idx - 1) \in DOMAIN files
    /\ Len(files[PathAt(idx - 1)]) = AssetAt(idx - 1).fileSize
    /\ HexDigest(files[PathAt(idx - 1)]) # AssetAt(idx - 1).sha1
    /\ gets = 0

\* C4: in mirror mode an asset whose local file exists with another size
\* than the declared one is not skipped but enters the loop of tries, and
\* after every write a file holds exactly the body written last to it.
C4_SizeMismatchOverwrites ==
    [][ /\ ( /\ pc = "downloading"
             /\ tryy = 0
             /\ idx <= Len(asset_listing)
             /\ mirror
             /\ PathAt(idx) \in DOMAIN files
             /\ Len(files[PathAt(idx)]) # AssetAt(idx).fileSize )
          => ( /\ idx' = idx
               /\ tryy' = 1
               /\ gets' = 0 )
        /\ \A q \in DOMAIN written' :
              q \in DOMAIN files' /\ files'[q] = written'[q]
      ]_vars

\* A file that was there with another size, now replaced by a shorter body.
C4_Witness ==
    /\ mirror
    /\ lastGetIdx >= 1
    /\ PathAt(lastGetIdx) \in DOMAIN files0
    /\ Len(files0[PathAt(lastGetIdx)]) # AssetAt(lastGetIdx).fileSize
    /\ PathAt(lastGetIdx) \in DOMAIN written
    /\ files[PathAt(lastGetIdx)] = written[PathAt(lastGetIdx)]
    /\ Len(files[PathAt(lastGetIdx)]) < Len(files0[PathAt(lastGetIdx)])
    /\ \A i \in 1..(lastGetIdx - 1) : PathAt(i) # PathAt(lastGetIdx)

\* C5: a run that finds the output directory and is not in mirror mode
\* ends in abort(1) with no listing request, no asset GET and no write
\* done; a run in mirror mode never takes that abort.
C5_ExistingOutputDir ==
    /\ (pc # "init" /\ dirExists0 /\ ~mirror) =>
           /\ pc = "aborted"
           /\ exitCode = 1
           /\ last = "output_dir_exists"
           /\ nListReqs = 0
           /\ gets = 0
           /\ lastGetIdx = 0
           /\ written = NoFiles
           /\ files = files0
    /\ mirror => last # "output_dir_exists"
    /\ last = "output_dir_exists" => dirExists0

C5_Witness ==
    /\ last = "output_dir_exists"
    /\ exitCode = 1
    /\ DOMAIN files0 # {}
    /\ nListReqs = 0

\* C6: against a server that links its pages by non-empty string tokens,
\* the first listing request carries no token and every later one carries
\* the token of the response before it, a request is issued only while
\* that token is non-empty, and the listing fetched so far, and the one
\* returned, is the concatenation of the items the server sent, in the
\* order it sent them, whatever the page boundaries are.
C6_PaginationLossless ==
    [][ /\ (nListReqs' = nListReqs + 1) =>
               /\ nListReqs = 0 => query_url' = asset_api_url
               /\ (nListReqs > 0 /\ continuation_token.t = "str") =>
                      /\ continuation_token.s # ""
                      /\ query_url' = asset_api_url \o "&continuationToken="
                                          \o continuation_token.s
        /\ (last' = "page" \/ pc' \in {"downloading", "done"}) =>
               asset_listing' = served'
        /\ (pc = "fetching" /\ pc' = "downloading") =>
               /\ asset_listing' = asset_listing
               /\ nListReqs' = nListReqs
      ]_vars

\* Three pages, two different items, the last request carrying "t2".
C6_Witness ==
    /\ last = "page"
    /\ nListReqs = 3
    /\ Len(asset_listing) = 2
    /\ asset_listing[1] # asset_listing[2]
    /\ asset_listing = served
    /\ continuation_token = Null
    /\ query_url = asset_api_url \o "&continuationToken=t2"

\* C7: a listing response without the key continuationToken, or with the
\* value null for it, ends pagination: the page's items are in the listing
\* once and fetch_asset_listing is about to return, the run neither
\* aborted nor crashed.
C7_MissingOrNullTokenEndsPagination ==
    (last = "listing_no_token" \/ (last = "page" /\ continuation_token = Null))
        => /\ pc = "fetching"
           /\ exitCode = -1
           /\ asset_listing = served

\* What C8 says of a run with verification off, but for the line printed:
\* no asset is requested twice, the loop of tries never reaches its second
\* iteration nor its end, and once the body is written the function has
\* returned success, whatever the body's hash.
C8_OneGetNoRetry ==
    /\ gets <= 1
    /\ tryy <= 1
    /\ error # RepeatedFailure
    /\ (hit + mism >= 1) =>
           /\ gets = 1
           /\ tryy = 0
           /\ error = NoError
           /\ attemptsUsed = 1
           /\ lastGetIdx = idx - 1
           /\ last \in {"try_notverified", "done"}

\* C8 as stated: with verification off, one GET, the body written, and
\* success marked "not verified".
C8_Original ==
    no_verify =>
        /\ C8_OneGetNoRetry
        /\ last = "try_notverified" =>
               lastMsg = Msg("Downloaded (not verified!)", 0)

\* C8, amended: as C8, the outcome being marked "not verified" (the line
\* "Downloaded ... (not verified!)") only when quiet is off.
C8_NoVerifySingleGet ==
    no_verify =>
        /\ C8_OneGetNoRetry
        /\ (last = "try_notverified" /\ ~quiet) =>
               lastMsg = Msg("Downloaded (not verified!)", 0)

\* Success on a body whose hash differs from the declared checksum.
C8_Witness ==
    /\ no_verify
    /\ ~quiet
    /\ last = "try_notverified"
    /\ mism = 1
    /\ gets = 1
    /\ error = NoError
    /\ lastMsg = Msg("Downloaded (not verified!)", 0)

\* C9: an IOError raised by the GET of a try, whatever the number of the
\* try and of the mismatches before it, makes download_single_asset return
\* "IO error" at once, and the run aborts with exit status 4 without
\* another GET.
C9_IOErrorEndsAsset ==
    ioFailure = "get" =>
        /\ error = IOErrorResult
        /\ pc = "aborted"
        /\ exitCode = 4
        /\ tryy = 0
        /\ lastGetIdx = idx
        /\ gets = hit + mism + 1
        /\ attemptsUsed = gets
        /\ lastMsg = Msg(IOErrorResult, 0)

\* The tenth GET fails after nine mismatches.
C9_Witness ==
    /\ ~no_verify
    /\ ioFailure = "get"
    /\ gets = 10
    /\ mism = 9
    /\ exitCode = 4

\* Every file is as the last write of this run left it, or as the run
\* found it when this run wrote none to its path.
NoRollback ==
    \A q \in LocalPaths :
        IF q \in DOMAIN written
        THEN q \in DOMAIN files /\ files[q] = written[q]
        ELSE /\ (q \in DOMAIN files) = (q \in DOMAIN files0)
             /\ q \in DOMAIN files => files[q] = files0[q]

\* C10: when download_single_asset returns an error for the asset at
\* position idx, the run aborts with exit status 4: the last GET was for
\* that asset, every file written belongs to an asset at a position up to
\* idx and is left as written, and nothing happens after the abort.
C10_FailureAbortsRun ==
    [][ /\ (error' # NoError) =>
               /\ pc' = "aborted"
               /\ exitCode' = 4
               /\ tryy' = 0
               /\ lastGetIdx' = idx'
               /\ NoRollback'
               /\ \A q \in DOMAIN written' :
                      \E i \in 1..idx' : PathAt(i)' = q
        /\ (pc = "aborted") => UNCHANGED vars
      ]_vars

\* The second asset fails all ten tries; both files stay on disk.
C10_Witness ==
    /\ error = RepeatedFailure
    /\ exitCode = 4
    /\ idx = 2
    /\ Cardinality(DOMAIN written) = 2
    /\ NoRollback

\* ------------------------------------------------------------------- C11
\* A token that ends the while loop of line 81: None or the empty string.
EndsPagination(tok) == tok.t = "null" \/ (tok.t = "str" /\ tok.s = "")

\* No GET and no write of this run so far.
NothingDownloaded ==
    /\ gets = 0
    /\ lastGetIdx = 0
    /\ written = NoFiles
    /\ files = files0

\* C11: no asset GET and no file write happens before the catalog fetch
\* has completed successfully.  The run passes from fetching to
\* downloading only after a page whose token ends pagination, with
\* nothing downloaded so far; a GET or a write is a step of the download
\* phase and a listing request is a step of the fetch phase, which never
\* comes back; and a run the fetch ends (on any page) has issued no GET
\* and written no file.
C11_DownloadOnlyAfterCompleteListing ==
    [][/\ (pc = "fetching" /\ pc' = "downloading") =>
              /\ last = "page"
              /\ EndsPagination(continuation_token)
              /\ asset_listing' = asset_listing
              /\ NothingDownloaded
       /\ (gets' # gets \/ lastGetIdx' # lastGetIdx \/ files' # files
              \/ written' # written) => pc = "downloading"
       /\ (nListReqs' # nListReqs) => (pc = "fetching" /\ NothingDownloaded)
       /\ (pc \notin {"init", "fetching"}) => pc' # "fetching"
       /\ (pc = "fetching" /\ pc' \in {"aborted", "crashed"}) =>
              /\ NothingDownloaded'
              /\ exitCode' \in {ExitListingIOError, ExitListingNotJson,
                                ExitUncaught}
       /\ (pc \in {"aborted", "crashed", "done"}) => UNCHANGED vars]_vars

\* The listing fails on its third page after two pages delivered items:
\* the run is over with no GET and no write.
C11_Witness ==
    /\ pc = "aborted"
    /\ last = "listing_ioerror"
    /\ nListReqs = 3
    /\ Len(asset_listing) = 2
    /\ NothingDownloaded

\* ------------------------------------------------------------------- C12
\* The steps whose listing response was not JSON, and those whose response
\* was JSON but not an object with both keys.
NotJsonSteps ==
    {"listing_notjson", "listing_notjson_ioerror", "listing_uncaught"}
MalformedJsonSteps ==
    {"listing_nonobject", "listing_no_token", "listing_no_items"}

\* C12: a listing response that is not JSON, or is JSON but not an object
\* with the keys items and continuationToken, aborts the run with exit
\* status 3 and the message that names the server URL and the repository
\* (the "Cannot decode JSON response" line of lines 94-96).
C12_MalformedListingIsProtocolError ==
    (last \in NotJsonSteps \cup MalformedJsonSteps) =>
        /\ pc = "aborted"
        /\ exitCode = ExitListingNotJson
        /\ exitCode # ExitListingIOError
        /\ lastMsg = Msg("Cannot decode JSON response", 0)

\* ------------------------------------------------------------------- C13
\* C13: a transport failure of a listing request, on any page, aborts the
\* run with exit status 2 and is not retried: the step that fails issues
\* one request, for the URL of the token in hand, the run is then aborted
\* with the "IO error" message and the pages fetched so far unused, and no
\* step (so no listing request) follows.
C13_ListingIOErrorAbortsWithoutRetry ==
    [][/\ (last' = "listing_ioerror" /\ last # "listing_ioerror") =>
              /\ pc = "fetching"
              /\ nListReqs' = nListReqs + 1
              /\ query_url' = QueryUrl(continuation_token)
              /\ pc' = "aborted"
              /\ exitCode' = ExitListingIOError
              /\ exitCode' # ExitListingNotJson
              /\ lastMsg' = Msg("IO error", 0)
              /\ asset_listing' = asset_listing
              /\ NothingDownloaded'
       /\ (last = "listing_ioerror") => UNCHANGED vars]_vars

\* The request for the second page fails after the first page delivered
\* an item.
C13_Witness ==
    /\ last = "listing_ioerror"
    /\ pc = "aborted"
    /\ exitCode = ExitListingIOError
    /\ nListReqs = 2
    /\ Len(asset_listing) = 1
    /\ query_url # QueryUrl(FirstIteration)

\* ------------------------------------------------------------------- C14
\* The declared digest and the digest of the file at the path of the asset
\* at position i, and whether they are equal up to letter case.
DeclaredAt(i) == AssetAt(i).sha1
FileDigestAt(i) == HexDigest(files[PathAt(i)])
EqualIgnoringCase(i) == Lower(DeclaredAt(i)) = Lower(FileDigestAt(i))

\* C14: the comparison of the declared SHA-1 with the computed one ignores
\* letter case: a try whose file hash equals the declared checksum up to
\* case is never counted as a mismatch (it does not go round the loop
\* again and does not end the loop as a failure).
C14_CaseInsensitiveCompare ==
    (last \in {"try_retry", "try_exhausted"}) => ~EqualIgnoringCase(idx)

\* C14, amended: the comparison is string equality with the lower-case
\* hexdigest.  A try is counted as a mismatch exactly when the two strings
\* differ, as a match only when they are equal, and a declared digest that
\* differs from the file hash in case alone never ends the loop with
\* success.
C14_ExactCompare ==
    /\ (last \in {"try_retry", "try_exhausted"}) =>
           DeclaredAt(idx) # FileDigestAt(idx)
    /\ (last = "try_verified") =>
           /\ DeclaredAt(idx - 1) = FileDigestAt(idx - 1)
           /\ DeclaredAt(idx - 1) = Lower(DeclaredAt(idx - 1))
    /\ (/\ pc = "downloading"
        /\ tryy >= FirstTry
        /\ DeclaredAt(idx) # Lower(DeclaredAt(idx))) => hit = 0

\* Ten tries wrote the bytes the upper-case checksum is the digest of, and
\* all ten were rejected.
C14_Witness ==
    /\ last = "try_exhausted"
    /\ mism = RangeEnd - 1
    /\ DeclaredAt(idx) = Upper(HexDigest(<<0>>))
    /\ files[PathAt(idx)] = <<0>>
    /\ EqualIgnoringCase(idx)
    /\ error = RepeatedFailure

\* ------------------------------------------------------------------- C15
\* The transitions of the run's phases the claim allows (a phase may also
\* last several steps).
PhaseTransitions ==
    {<<"init", "fetching">>, <<"init", "aborted">>,
     <<"fetching", "fetching">>, <<"fetching", "downloading">>,
     <<"fetching", "aborted">>, <<"downloading", "downloading">>,
     <<"downloading", "done">>, <<"downloading", "aborted">>}

\* The exit status the claim gives to the step that ended the run.
StatusOfEnd(step) ==
    CASE step = "done" -> ExitSuccess
      [] step = "output_dir_exists" -> 1
      [] step = "listing_ioerror" -> 2
      [] step \in NotJsonSteps \cup MalformedJsonSteps -> 3
      [] step \in {"try_ioerror", "try_exhausted"} -> 4
      [] OTHER -> -1

\* C15: every run follows INIT -> FETCHING_CATALOG -> DOWNLOADING ->
\* {DONE | ABORTED} with no other transition, and each way a run can end
\* has its own exit status: success 0, existing output directory 1,
\* catalog network failure 2, catalog protocol failure 3, asset failure 4.
C15_PhasesAndExitStatuses ==
    [][/\ <<pc, pc'>> \in PhaseTransitions
       /\ (pc' \notin {"init", "fetching", "downloading"}) =>
              /\ pc' \in {"done", "aborted"}
              /\ exitCode' = StatusOfEnd(last')]_vars

\* ------------------------------------------------------------------- C16
\* The fetch is still asking: the token in hand is not null or empty and
\* the bound on the pages a server is followed for is reached.
StillPaginating ==
    /\ pc = "fetching"
    /\ ~EndsPagination(continuation_token)
    /\ nListReqs = MaxPages

\* C16: pagination stops as soon as a page carries a null or empty token
\* (the next step is the return of the listing, with no further request)
\* and does not stop on any other token; so every run either ends (done
\* or aborted, or dead on a malformed listing response) or is the run
\* against a server that never stops sending non-empty tokens, which
\* goes on asking for pages for as long as the server is followed.
C16_TerminatesUnlessTokensNeverEnd ==
    /\ [][/\ (pc = "fetching" /\ last = "page"
                /\ EndsPagination(continuation_token)) =>
                 (pc' = "downloading" /\ nListReqs' = nListReqs)
          /\ (pc = "fetching" /\ ~EndsPagination(continuation_token)) =>
                 pc' # "downloading"
          /\ tryy' <= RangeEnd - 1]_vars
    /\ \/ <>(pc \in {"done", "aborted"})
       \/ <>(pc = "crashed")
       \/ <>[]StillPaginating

\* A chain of three pages ends, and the run is done after an asset that
\* took all ten attempts.
C16_Witness ==
    /\ pc = "done"
    /\ nListReqs = MaxPages
    /\ ~no_verify
    /\ attemptsUsed = RangeEnd - 1
    /\ Len(asset_listing) >= 1

\* ------------------------------------------------------------------- C17
\* The steps that end the work on one asset with success.
SuccessSteps == {"skip", "try_verified", "try_notverified"}

\* C17: assets are processed one at a time in catalog order.  Every GET is
\* for the asset in hand; the position in hand never goes back and moves
\* on by one, and only by a skip or a successful return; and the first GET
\* for a later asset comes when no GET has been made for it yet, after the
\* asset requested before it returned success.
C17_OneAssetAtATimeInOrder ==
    [][(pc = "downloading") =>
          /\ idx' \in {idx, idx + 1}
          /\ (idx' = idx + 1) => (last' \in SuccessSteps /\ error' = NoError)
          /\ (gets' = gets + 1) =>
                 /\ idx \in 1..Len(asset_listing)
                 /\ lastGetIdx' = idx
                 /\ lastGetIdx <= idx
          /\ lastGetIdx' >= lastGetIdx
          /\ (lastGetIdx' # lastGetIdx) =>
                 /\ gets = 0
                 /\ gets' = 1
                 /\ error = NoError
          /\ (lastGetIdx' = lastGetIdx /\ gets' > gets) => lastGetIdx = idx
      ]_vars

\* The second asset is at its second GET after the first one, at another
\* path, was downloaded.
C17_Witness ==
    /\ pc = "downloading"
    /\ idx = 2
    /\ lastGetIdx = 2
    /\ gets = 2
    /\ last = "try_retry"
    /\ PathAt(1) # PathAt(2)
    /\ PathAt(1) \in DOMAIN written

\* ------------------------------------------------------------------- C18
\* Pairs of positions, earlier and later, whose assets have the same path.
DuplicatePairs ==
    {ij \in (1..Len(asset_listing)) \X (1..Len(asset_listing)) :
        ij[1] < ij[2] /\ PathAt(ij[1]) = PathAt(ij[2])}

\* C18: duplicate paths resolve as last write wins, in mirror mode too:
\* when two descriptors have the same path and the run downloaded to that
\* path, after a successful run the file holds the content downloaded for
\* the later descriptor.
C18_LaterDescriptorWins ==
    (pc = "done") =>
        \A ij \in DuplicatePairs :
            LET p == PathAt(ij[1])
            IN  p \in DOMAIN writtenBy =>
                    /\ writtenBy[p] >= ij[2]
                    /\ files[p] = written[p]

\* C18, amended: the listing is not deduplicated.  After a successful run
\* the file at a duplicated path holds the content last written to it;
\* with mirror off that is the content downloaded for the later
\* descriptor; with mirror on the later descriptor is skipped when the
\* file then at the path (written for the earlier descriptor, or there
\* before the run) has the size the later one declares, and the file then
\* keeps that content.
C18_LastWriteWinsUnlessSkipped ==
    (pc = "done") =>
        \A ij \in DuplicatePairs :
            LET p == PathAt(ij[1])
                downloaded == p \in DOMAIN writtenBy
            IN  /\ p \in DOMAIN files
                /\ downloaded => files[p] = written[p]
                /\ ~downloaded => (p \in DOMAIN files0 /\ files[p] = files0[p])
                /\ ~mirror => (downloaded /\ writtenBy[p] >= ij[2])
                /\ (mirror /\ (~downloaded \/ writtenBy[p] < ij[2])) =>
                       Len(files[p]) = AssetAt(ij[2]).fileSize

\* A mirror run is done with the file of a duplicated path holding what
\* was downloaded for the earlier descriptor: the later one was skipped.
C18_Witness ==
    /\ pc = "done"
    /\ mirror
    /\ Len(asset_listing) = 2
    /\ PathAt(1) = PathAt(2)
    /\ PathAt(1) \in DOMAIN writtenBy
    /\ writtenBy[PathAt(1)] = 1
    /\ lastGetIdx = 1
    /\ files[PathAt(1)] = written[PathAt(1)]

\* ------------------------------------------------------------------- C19
\* C19: when a run with verification on and mirror off is done over a
\* listing with pairwise distinct paths, every descriptor's file exists
\* and its SHA-1 equals the descriptor's checksum; and no run with
\* verification on is done while the bytes last written for some asset
\* failed verification.
C19_DoneImpliesVerified ==
    (pc = "done" /\ ~no_verify) =>
        /\ (~mirror /\ DuplicatePairs = {}) =>
               \A i \in 1..Len(asset_listing) :
                   /\ PathAt(i) \in DOMAIN files
                   /\ HexDigest(files[PathAt(i)]) = DeclaredAt(i)
        /\ \A p \in DOMAIN writtenBy :
               /\ files[p] = written[p]
               /\ HexDigest(written[p]) = DeclaredAt(writtenBy[p])

\* Two assets at different paths are downloaded and verified, the second
\* one after a mismatch.
C19_Witness ==
    /\ pc = "done"
    /\ ~no_verify
    /\ ~mirror
    /\ Len(asset_listing) = 2
    /\ DuplicatePairs = {}
    /\ attemptsUsed >= 2
    /\ \A i \in 1..2 : HexDigest(files[PathAt(i)]) = DeclaredAt(i)

\* ------------------------------------------------------------------- C20
\* C20: when verification fails on all 10 attempts the file is neither
\* removed nor restored: at the abort it holds the body of the 10th
\* response, whose digest differs from the checksum.  On the disk so left
\* the mirror test of a later run skips the asset whenever the size of
\* that file equals fileSize; and a mirror run that is done has issued no
\* GET for the assets it found so on its disk, whose files are as they
\* were, verified or not.
C20_FailedFileStaysAndIsSkippedLater ==
    /\ (last = "try_exhausted") =>
           LET p == PathAt(idx)
           IN  /\ pc = "aborted"
               /\ mism = RangeEnd - 1
               /\ p \in DOMAIN files
               /\ files[p] = written[p]
               /\ writtenBy[p] = idx
               /\ HexDigest(files[p]) # DeclaredAt(idx)
               /\ (Len(files[p]) = AssetAt(idx).fileSize) =>
                      SkipAsset(TRUE, files, AssetAt(idx))
    /\ (pc = "done" /\ mirror) =>
           \A i \in 1..Len(asset_listing) :
               (PathAt(i) \notin DOMAIN writtenBy) =>
                   /\ PathAt(i) \in DOMAIN files0
                   /\ files[PathAt(i)] = files0[PathAt(i)]
                   /\ Len(files[PathAt(i)]) = AssetAt(i).fileSize

\* A mirror run with verification on is done without a single GET over a
\* file of the declared size whose digest is not the declared one, such
\* as an earlier run's tenth body.
C20_Witness ==
    /\ pc = "done"
    /\ mirror
    /\ ~no_verify
    /\ Len(asset_listing) >= 1
    /\ lastGetIdx = 0
    /\ written = NoFiles
    /\ files = files0
    /\ Len(files[PathAt(1)]) = AssetAt(1).fileSize
    /\ HexDigest(files[PathAt(1)]) # DeclaredAt(1)

====
